---- MODULE Spec2Model ----
(***************************************************************************)
(* Model of sdk/typescript/src/builder/Transaction.ts: the Transaction     *)
(* builder (inputs, commands, gas config, sender, expiration), the result  *)
(* reference returned by add(), the snapshot codec (serialize / from) and  *)
(* the asynchronous build() pipeline.                                      *)
(***************************************************************************)
EXTENDS Integers, Sequences, FiniteSets, TLC

VARIABLES
  inputs,      \* Transaction.#inputs
  commands,    \* Transaction.#commands
  gasConfig,   \* Transaction.#gasConfig
  sender,      \* Transaction.#sender
  expiration,  \* Transaction.#expiration
  results,     \* the TransactionResult proxies handed out by add(), by command position
  lastAccess,  \* outcome of the last property read / write on a TransactionResult
  serialized,  \* outcome of the last serialize() call
  restored,    \* the Transaction produced by the last Transaction.from() call
  builds       \* one record of locals per build() invocation

vars == <<inputs, commands, gasConfig, sender, expiration, results, lastAccess,
          serialized, restored, builds>>

txVars == <<inputs, commands, gasConfig, sender, expiration>>

(***************************************************************************)
(* Bounds of the model.                                                    *)
(***************************************************************************)
MaxInputs == 2
MaxCommands == 2
MaxBuilds == 2
MaxPos == 1
MaxLate == 1

(***************************************************************************)
(* JavaScript values.  Every value is a record tagged by t.                *)
(***************************************************************************)
Undef == [t |-> "undef"]
Null == [t |-> "null"]
Num(n) == [t |-> "num", n |-> n]
Str(s) == [t |-> "str", s |-> s]
Arr(items) == [t |-> "array", items |-> items]

\* !!v of JavaScript
Truthy(v) ==
  CASE v.t = "undef" -> FALSE
    [] v.t = "null" -> FALSE
    [] v.t = "num" -> v.n # 0
    [] v.t = "str" -> v.s # ""
    [] OTHER -> TRUE

\* String(n) for a number n
StringOf(n) == Str(ToString(n))

SuiObjectRef(id, version) ==
  [t |-> "ref", objectId |-> id, version |-> version, digest |-> <<"digest", id, version>>]

\* Inputs.Pure, Inputs.ObjectRef, Inputs.SharedObjectRef as called by build()
Pure(type, value) == [t |-> "Pure", type |-> type, value |-> value]
ObjectRef(ref) == [t |-> "ImmOrOwned", ref |-> ref]
SharedObjectRef(id, version, mutable) ==
  [t |-> "Shared", objectId |-> id, initialSharedVersion |-> version, mutable |-> mutable]

\* is(x, BuilderCallArg): x is a Pure or Object call argument
IsBuilderCallArg(x) ==
  /\ "t" \in DOMAIN x
  /\ \/ x.t = "Pure"
     \/ x.t = "Shared"
     \/ x.t = "ImmOrOwned" /\ x.ref.t = "ref"

(***************************************************************************)
(* Command arguments and commands.                                         *)
(***************************************************************************)
InputArg(i) == [kind |-> "Input", index |-> i]
GasCoin == [kind |-> "GasCoin"]
Result(i) == [kind |-> "Result", index |-> i]
NestedResult(i, k) == [kind |-> "NestedResult", index |-> i, resultIndex |-> k]

\* A TransactionInput as created by input()
TransactionInput(value, index) == [kind |-> "Input", value |-> value, index |-> index]

\* A command: its kind, and Object.entries(command) without "kind" as fields
MoveCall(target, arguments) ==
  [kind |-> "MoveCall", target |-> target, arguments |-> arguments]
TransferObjects(objects, address) ==
  [kind |-> "TransferObjects",
   fields |-> << [key |-> "objects", value |-> objects],
                 [key |-> "address", value |-> address] >>]
SplitCoins(coin, amount) ==
  [kind |-> "SplitCoins",
   fields |-> << [key |-> "coin", value |-> coin],
                 [key |-> "amount", value |-> amount] >>]
Publish(modules) ==
  [kind |-> "Publish", fields |-> << [key |-> "modules", value |-> modules] >>]

(***************************************************************************)
(* The result reference: createTransactionResult(index).                   *)
(***************************************************************************)
Positions == 0 .. MaxPos

\* the proxy's target and its private memo array nestedResults
createTransactionResult(index) ==
  [baseResult |-> Result(index), nestedResults |-> [k \in Positions |-> Undef]]

\* a memo that ignores the position once something is memoized
nestedResultFor_FirstMemo(ref, resultIndex) ==
  IF \E k \in Positions : ref.nestedResults[k] # Undef
    THEN [ref |-> ref,
          value |-> ref.nestedResults[
                      CHOOSE k \in Positions : ref.nestedResults[k] # Undef]]
    ELSE LET made == NestedResult(ref.baseResult.index, resultIndex)
         IN [ref |-> [ref EXCEPT !.nestedResults[resultIndex] = made], value |-> made]

\* nestedResultFor(resultIndex): nestedResults[resultIndex] ??= {...}
nestedResultFor(ref, resultIndex) ==
  IF ref.nestedResults[resultIndex] # Undef
    THEN [ref |-> ref, value |-> ref.nestedResults[resultIndex]]
    ELSE LET made == NestedResult(ref.baseResult.index, resultIndex)
         IN [ref |-> [ref EXCEPT !.nestedResults[resultIndex] = made], value |-> made]

\* Property keys are strings: the target's own keys, the decimal positions,
\* and keys that parseInt turns into a negative number or NaN.
PositionKey(k) == ToString(k)
Properties == {"kind", "index", "-1", "length"} \cup {PositionKey(k) : k \in Positions}

NaN == MaxPos + 1000

\* parseInt(property, 10)
parseInt(property) ==
  IF \E k \in -1 .. MaxPos : ToString(k) = property
    THEN CHOOSE k \in -1 .. MaxPos : ToString(k) = property
    ELSE NaN

\* the get trap
ProxyGet(ref, property) ==
  IF property \in {"kind", "index"}
    THEN [ref |-> ref,
          value |-> IF property = "kind" THEN Str(ref.baseResult.kind)
                    ELSE Num(ref.baseResult.index)]
    ELSE LET resultIndex == parseInt(property)
         IN IF resultIndex = NaN \/ resultIndex < 0
              THEN [ref |-> ref, value |-> Undef]
              ELSE nestedResultFor(ref, resultIndex)

\* a set trap that forwards the write to the target
ProxySet_Forward(ref, property, value) ==
  [ref |-> IF property = "index"
             THEN [ref EXCEPT !.baseResult.index = value.n]
             ELSE ref,
   error |-> "none"]

\* the set trap: always throws, the target is not touched
ProxySet(ref, property, value) ==
  [ref |-> ref,
   error |-> "The transaction result is a proxy, and does not support setting properties directly"]

(***************************************************************************)
(* Initial state: new Transaction().                                       *)
(***************************************************************************)
NoAccess == [op |-> "none"]
NotSerialized == [t |-> "none"]
NotRestored == [t |-> "none"]

Init ==
  /\ inputs = << >>
  /\ commands = << >>
  /\ gasConfig = [budget |-> Undef, price |-> Undef, payment |-> Undef, owner |-> Undef]
  /\ sender = Undef
  /\ expiration = Undef
  /\ results = << >>
  /\ lastAccess = NoAccess
  /\ serialized = NotSerialized
  /\ restored = NotRestored
  /\ builds = << >>

(***************************************************************************)
(* Synchronous mutators.                                                   *)
(***************************************************************************)
\* an input() that numbers inputs from 1 and caps the index at the last position
pushInput_Capped(list, value) ==
  Append(list, TransactionInput(value, IF Len(list) = 0 THEN 0 ELSE Len(list) - 1))

\* index = this.#inputs.length; this.#inputs.push(input)
pushInput(list, value) == Append(list, TransactionInput(value, Len(list)))

input(value) ==
  /\ Len(inputs) < MaxInputs
  /\ inputs' = pushInput(inputs, value)
  /\ UNCHANGED <<commands, gasConfig, sender, expiration, results, lastAccess,
                 serialized, restored, builds>>

\* index = this.#commands.push(command); createTransactionResult(index - 1)
pushCommand(list, command) == Append(list, command)
addResult(list) == createTransactionResult(Len(list) - 1)

add(command) ==
  /\ Len(commands) < MaxCommands
  /\ commands' = pushCommand(commands, command)
  /\ results' = Append(results, addResult(commands'))
  /\ UNCHANGED <<inputs, gasConfig, sender, expiration, lastAccess,
                 serialized, restored, builds>>

setSender(s) ==
  /\ sender' = s
  /\ UNCHANGED <<inputs, commands, gasConfig, expiration, results, lastAccess,
                 serialized, restored, builds>>

setExpiration(e) ==
  /\ expiration' = e
  /\ UNCHANGED <<inputs, commands, gasConfig, sender, results, lastAccess,
                 serialized, restored, builds>>

setGasPrice(price) ==
  /\ gasConfig' = [gasConfig EXCEPT !.price = StringOf(price)]
  /\ UNCHANGED <<inputs, commands, sender, expiration, results, lastAccess,
                 serialized, restored, builds>>

setGasBudget(budget) ==
  /\ gasConfig' = [gasConfig EXCEPT !.budget = StringOf(budget)]
  /\ UNCHANGED <<inputs, commands, sender, expiration, results, lastAccess,
                 serialized, restored, builds>>

setGasPayment(payment) ==
  /\ gasConfig' = [gasConfig EXCEPT !.payment = payment]
  /\ UNCHANGED <<inputs, commands, sender, expiration, results, lastAccess,
                 serialized, restored, builds>>

(***************************************************************************)
(* Reads and writes of a result reference.                                 *)
(***************************************************************************)
readResult(c, property) ==
  LET got == ProxyGet(results[c], property)
  IN /\ results' = [results EXCEPT ![c] = got.ref]
     /\ lastAccess' = [op |-> "get", ref |-> c, property |-> property,
                       value |-> got.value]
     /\ UNCHANGED <<inputs, commands, gasConfig, sender, expiration,
                    serialized, restored, builds>>

writeResult(c, property, value) ==
  LET put == ProxySet(results[c], property, value)
  IN /\ results' = [results EXCEPT ![c] = put.ref]
     /\ lastAccess' = [op |-> "set", ref |-> c, property |-> property,
                       error |-> put.error]
     /\ UNCHANGED <<inputs, commands, gasConfig, sender, expiration,
                    serialized, restored, builds>>

(***************************************************************************)
(* The snapshot codec: serialize() and Transaction.from().                 *)
(***************************************************************************)
\* a raw Uint8Array value
Bytes(b) == [t |-> "bytes", bytes |-> b]

\* What JSON.parse(JSON.stringify(v)) returns for a value v: a key holding
\* undefined is dropped and reads back as undefined, a typed array comes back
\* as a plain object keyed by position, every other value comes back equal.
JSONValue(v) == IF v.t = "bytes" THEN [t |-> "object", entries |-> v.bytes] ELSE v

JSONstringify(data) ==
  [t |-> "json",
   text |-> [data EXCEPT
               !.inputs = [i \in DOMAIN data.inputs |->
                             [data.inputs[i] EXCEPT !.value = JSONValue(@)]]]]

JSONparse(string) == string.text

\* a check of resolution instead of presence
allInputsProvided_Resolved(list) == \A i \in DOMAIN list : IsBuilderCallArg(list[i].value)

\* this.#inputs.every((input) => !!input.value)
allInputsProvided(list) == \A i \in DOMAIN list : Truthy(list[i].value)

\* the object literal handed to create(data, SerializedTransactionBuilder):
\* it has no sender and no expiration key
SerializedData(ins, cmds, gas, snd, exp) ==
  [version |-> Num(1), sender |-> Undef, expiration |-> Undef,
   inputs |-> ins, commands |-> cmds, gasConfig |-> gas]

\* the builder state a snapshot was taken from (kept to state the round trip)
TxState ==
  [sender |-> sender, expiration |-> expiration, gasConfig |-> gasConfig,
   inputs |-> inputs, commands |-> commands]

serialize ==
  /\ serialized' =
       IF ~allInputsProvided(inputs)
         THEN [t |-> "error", source |-> TxState,
               error |-> "All input values must be provided before serializing."]
         ELSE [t |-> "string", source |-> TxState,
               string |-> JSONstringify(
                 SerializedData(inputs, commands, gasConfig, sender, expiration))]
  /\ UNCHANGED <<inputs, commands, gasConfig, sender, expiration, results,
                 lastAccess, restored, builds>>

\* the version tags of the snapshots handed to from(): the tag serialize()
\* writes, no tag, another number, and the text "1"
VersionTags == {Num(1), Undef, Num(2), Str("1")}

\* the string serialize() returned, carrying another version tag
WithVersion(string, version) == [string EXCEPT !.text.version = version]

\* a schema check that accepts every numeric version tag
IsSerializedTransactionBuilder_AnyNumber(parsed) == parsed.version.t = "num"

\* assert(parsed, SerializedTransactionBuilder): version is literal(1)
IsSerializedTransactionBuilder(parsed) == parsed.version = Num(1)

\* Transaction.from(string), for the string the last serialize() returned,
\* as it is or with another version tag, or for bytes; tag and source record
\* what was handed in
from(string) ==
  /\ serialized.t = "string"
  /\ restored' =
       IF string.t # "json"
         THEN [t |-> "error", source |-> serialized.source, tag |-> Undef,
               error |-> "from() does not yet support bytes"]
         ELSE LET parsed == JSONparse(string)
              IN IF ~IsSerializedTransactionBuilder(parsed)
                   THEN [t |-> "error", source |-> serialized.source,
                         tag |-> parsed.version, error |-> "StructError"]
                   ELSE [t |-> "tx", source |-> serialized.source,
                         tag |-> parsed.version,
                         sender |-> parsed.sender,
                         expiration |-> parsed.expiration,
                         gasConfig |-> parsed.gasConfig,
                         inputs |-> parsed.inputs,
                         commands |-> parsed.commands]
  /\ UNCHANGED <<inputs, commands, gasConfig, sender, expiration, results,
                 lastAccess, serialized, builds>>

(***************************************************************************)
(* The chain state behind the provider.                                    *)
(***************************************************************************)
None == [t |-> "none"]

\* normalized Move parameter types
U64 == [t |-> "U64"]
Address == [t |-> "Address"]
Struct(name) == [t |-> "Struct", name |-> name]
MutableReference(to) == [t |-> "MutableReference", to |-> to]
TypeParameter == [t |-> "TypeParameter"]

\* getNormalizedMoveFunction(package, module, function).parameters
NormalizedParameters(target) ==
  CASE target = "pkg::pay::split" ->
         <<Struct("Coin"), U64, MutableReference(Struct("TxContext"))>>
    [] target = "pkg::pay::send" ->
         <<Address, MutableReference(Struct("TxContext"))>>
    [] target = "pkg::pay::join" ->
         <<Struct("Coin"), TypeParameter>>

\* the entry getObjectBatch returns for an id that exists
ObjectData(id) ==
  IF id = "0xb"
    THEN [status |-> "Exists", objectId |-> id, version |-> 7, initialSharedVersion |-> Num(2)]
    ELSE [status |-> "Exists", objectId |-> id, version |-> 3, initialSharedVersion |-> Undef]

\* the entry getObjectBatch returns for an id it cannot resolve
NotExists(id) == [status |-> "NotExists", objectId |-> id]

\* getSharedObjectInitialVersion(object)
getSharedObjectInitialVersion(object) ==
  IF object.status = "Exists" THEN object.initialSharedVersion ELSE Undef

\* getObjectReference(object)
getObjectReference(object) ==
  IF object.status = "Exists" THEN SuiObjectRef(object.objectId, object.version) ELSE Undef

\* extractStructTag(param): the struct behind a struct type or a reference to one
extractStructTag(param) ==
  CASE param.t = "Struct" -> param
    [] param.t = "MutableReference" /\ param.to.t = "Struct" -> param.to
    [] OTHER -> None

\* isTxContext(param)
isTxContext(param) ==
  extractStructTag(param) # None /\ extractStructTag(param).name = "TxContext"

\* getPureSerializationType(param, value): the pure type a raw value is encoded
\* as when the parameter is a scalar the value is compatible with
getPureSerializationType(param, value) ==
  CASE param.t = "U64" /\ value.t = "num" -> "u64"
    [] param.t = "Address" /\ value.t = "str" -> "address"
    [] OTHER -> "undefined"

\* whether Inputs.Pure(type, value) can encode the raw value as the type
PureEncodable(type, value) ==
  \/ type = "u64" /\ value.t = "num"
  \/ type = "address" /\ value.t = "str"

\* the well-known encoding COMMAND_TYPE of a command field, None when the
\* field has none; and whether the field's schema is an array
WellKnownEncoding(kind, key) ==
  CASE kind = "TransferObjects" /\ key = "objects" -> [kind |-> "object"]
    [] kind = "TransferObjects" /\ key = "address" -> [kind |-> "pure", type |-> "address"]
    [] kind = "SplitCoins" /\ key = "coin" -> [kind |-> "object"]
    [] kind = "SplitCoins" /\ key = "amount" -> [kind |-> "pure", type |-> "u64"]
    [] OTHER -> None

IsArrayField(kind, key) ==
  \/ kind = "TransferObjects" /\ key = "objects"
  \/ kind = "Publish" /\ key = "modules"

(***************************************************************************)
(* build(): the synchronous pieces, as functions of the scan state         *)
(* S = [inputs, objectsToResolve, moveModulesToResolve, error].            *)
(***************************************************************************)
NoError == "none"

Throw(S, error) == [S EXCEPT !.error = error]

\* a write that also renumbers the input it writes
SetValue_Renumber(S, index, value) ==
  [S EXCEPT !.inputs[index + 1].value = value, !.inputs[index + 1].index = index + 1]

SetValue(S, index, value) == [S EXCEPT !.inputs[index + 1].value = value]

Queue(S, id, index) ==
  [S EXCEPT !.objectsToResolve = Append(@, [id |-> id, input |-> index])]

\* input.value = Inputs.Pure(type, input.value)
WritePure(S, index, type, value) ==
  IF PureEncodable(type, value)
    THEN SetValue(S, index, Pure(type, value))
    ELSE Throw(S, "cannot encode the value as pure")

\* encodeInput(index) of the well-known scan
encodeInput(S, wellKnownEncoding, index) ==
  IF index + 1 \notin DOMAIN S.inputs
    THEN Throw(S, "Missing input")
    ELSE LET value == S.inputs[index + 1].value
         IN IF IsBuilderCallArg(value)
              THEN S
              ELSE IF wellKnownEncoding.kind = "object" /\ value.t = "str"
                THEN Queue(S, value.s, index)
                ELSE IF wellKnownEncoding.kind = "pure"
                  THEN WritePure(S, index, wellKnownEncoding.type, value)
                  ELSE Throw(S, "Unexpected input format.")

RECURSIVE encodeItems(_, _, _, _)
\* value.forEach((arrayItem) => ...)
encodeItems(S, wellKnownEncoding, items, k) ==
  IF S.error # NoError \/ k > Len(items)
    THEN S
    ELSE encodeItems(
           IF items[k].kind # "Input" THEN S
           ELSE encodeInput(S, wellKnownEncoding, items[k].index),
           wellKnownEncoding, items, k + 1)

\* the body of Object.entries(command).forEach for one [key, value]
scanField(S, kind, field) ==
  LET wellKnownEncoding == WellKnownEncoding(kind, field.key)
  IN IF wellKnownEncoding = None
       THEN S
       ELSE IF IsArrayField(kind, field.key)
         THEN encodeItems(S, wellKnownEncoding, field.value, 1)
         ELSE IF field.value.kind # "Input"
           THEN S
           ELSE encodeInput(S, wellKnownEncoding, field.value.index)

RECURSIVE scanFields(_, _, _)
scanFields(S, command, k) ==
  IF S.error # NoError \/ k > Len(command.fields)
    THEN S
    ELSE scanFields(scanField(S, command.kind, command.fields[k]), command, k + 1)

\* command.arguments.some(arg => arg.kind === 'Input' && !is(inputs[arg.index].value, BuilderCallArg))
needsResolution(ins, command) ==
  \E a \in DOMAIN command.arguments :
    /\ command.arguments[a].kind = "Input"
    /\ ~IsBuilderCallArg(ins[command.arguments[a].index + 1].value)

\* a scan that marks every Move call for resolution
scanCommand_EveryMoveCall(S, command) ==
  IF command.kind = "MoveCall"
    THEN [S EXCEPT !.moveModulesToResolve = Append(@, command)]
    ELSE scanFields(S, command, 1)

\* the body of this.#commands.forEach for one command
scanCommand(S, command) ==
  IF command.kind = "MoveCall"
    THEN IF needsResolution(S.inputs, command)
           THEN [S EXCEPT !.moveModulesToResolve = Append(@, command)]
           ELSE S
    ELSE scanFields(S, command, 1)

RECURSIVE scanCommands(_, _, _)
scanCommands(S, cmds, k) ==
  IF S.error # NoError \/ k > Len(cmds)
    THEN S
    ELSE scanCommands(scanCommand(S, cmds[k]), cmds, k + 1)

\* a signature check that never drops the trailing context parameter
hasTxContext_Never(parameters) == FALSE

\* hasTxContext and params of one Move call
hasTxContext(parameters) ==
  Len(parameters) > 0 /\ isTxContext(parameters[Len(parameters)])

paramsOf(parameters) ==
  IF hasTxContext(parameters) THEN SubSeq(parameters, 1, Len(parameters) - 1)
  ELSE parameters

\* the body of params.forEach for parameter i of a Move call
resolveParam(S, moveCall, param, i) ==
  LET arg == moveCall.arguments[i]
  IN IF arg.kind # "Input"
       THEN S
       ELSE IF IsBuilderCallArg(S.inputs[arg.index + 1])
         THEN S
         ELSE LET inputValue == S.inputs[arg.index + 1].value
                  serType == getPureSerializationType(param, inputValue)
              IN IF serType # "undefined"
                   THEN WritePure(S, arg.index, serType, inputValue)
                   ELSE IF extractStructTag(param) # None \/ param.t = "TypeParameter"
                     THEN IF inputValue.t # "str"
                            THEN Throw(S, "Expect the argument to be an object id string")
                            ELSE Queue(S, inputValue.s, arg.index)
                     ELSE Throw(S, "Unknown call arg type")

RECURSIVE resolveParams(_, _, _, _)
resolveParams(S, moveCall, params, i) ==
  IF S.error # NoError \/ i > Len(params)
    THEN S
    ELSE resolveParams(resolveParam(S, moveCall, params[i], i), moveCall, params, i + 1)

\* what one signature fetch's continuation does with the fetched function
resolveMoveCall(S, moveCall, parameters) ==
  LET params == paramsOf(parameters)
  IN IF Len(params) # Len(moveCall.arguments)
       THEN Throw(S, "Incorrect number of arguments.")
       ELSE resolveParams(S, moveCall, params, 1)

\* the value written for the i-th object of the batch
objectCallArg(object, id) ==
  LET initialSharedVersion == getSharedObjectInitialVersion(object)
  IN IF Truthy(initialSharedVersion)
       THEN SharedObjectRef(id, initialSharedVersion.n, TRUE)
       ELSE ObjectRef(getObjectReference(object))

\* a write-back that walks the queue from its end
entryFor_Reversed(objectsToResolve, i) ==
  objectsToResolve[Len(objectsToResolve) + 1 - i]

\* which queue entry the i-th object of the batch belongs to
entryFor(objectsToResolve, i) == objectsToResolve[i]

RECURSIVE writeObjects(_, _, _, _)
\* objects.forEach((object, i) => ...)
writeObjects(ins, objectsToResolve, objects, i) ==
  IF i > Len(objects)
    THEN ins
    ELSE LET entry == entryFor(objectsToResolve, i)
         IN writeObjects(
              [ins EXCEPT ![entry.input + 1].value = objectCallArg(objects[i], entry.id)],
              objectsToResolve, objects, i + 1)

RECURSIVE inOrder(_, _, _)
\* Promise.all over moveModulesToResolve when the fetches resolve in the order
\* of the array: every callback runs, the first error thrown is the one kept
inOrder(S, moveModulesToResolve, k) ==
  IF k > Len(moveModulesToResolve)
    THEN S
    ELSE LET R == resolveMoveCall([S EXCEPT !.error = NoError],
                                  moveModulesToResolve[k],
                                  NormalizedParameters(moveModulesToResolve[k].target))
         IN inOrder([R EXCEPT !.error = IF S.error # NoError THEN S.error ELSE @],
                    moveModulesToResolve, k + 1)

(***************************************************************************)
(* build(): the pipeline.  X = [inputs, gasConfig, b] is the builder state *)
(* a piece of build() works on together with the locals b of that build.  *)
(* A piece runs from one await to the next without interruption.           *)
(***************************************************************************)
NewBuild(provider) ==
  [pc |-> "running", provider |-> provider, error |-> NoError, calls |-> << >>,
   objectsToResolve |-> << >>, moveModulesToResolve |-> << >>, tasks |-> << >>,
   objects |-> Undef, payload |-> Undef, start |-> TxState]

Fail(X, error) == [X EXCEPT !.b.pc = "failed", !.b.error = error]

Call(X, fn, arg) == [X EXCEPT !.b.calls = Append(@, [fn |-> fn, arg |-> arg])]

NoProvider ==
  "No provider passed to Transaction#build, but transaction data was not sufficient to build offline."
ProviderError == "the provider call failed"

\* builder.ser('TransactionData', { V1: transactionData }).toBytes()
ser(transactionData) == [t |-> "bytes", V1 |-> transactionData]

\* an assembly without the completeness check
assemble_NoCheck(X) ==
  [X EXCEPT
     !.b.pc = "done",
     !.b.payload = ser(
       [sender |-> sender,
        expiration |-> IF Truthy(expiration) THEN expiration ELSE [t |-> "None"],
        gasData |-> [payment |-> X.gasConfig.payment,
                     owner |-> IF X.gasConfig.owner \in {Undef, Null}
                                 THEN sender ELSE X.gasConfig.owner,
                     price |-> X.gasConfig.price,
                     budget |-> X.gasConfig.budget],
        inputs |-> [i \in DOMAIN X.inputs |-> X.inputs[i].value],
        commands |-> commands])]

\* lines 476-501: the completeness check and the assembly
assemble(X) ==
  IF \E i \in DOMAIN X.inputs : ~IsBuilderCallArg(X.inputs[i].value)
    THEN Fail(X, "Expected a BuilderCallArg")
    ELSE [X EXCEPT
            !.b.pc = "done",
            !.b.payload = ser(
              [sender |-> sender,
               expiration |-> IF Truthy(expiration) THEN expiration ELSE [t |-> "None"],
               gasData |-> [payment |-> X.gasConfig.payment,
                            owner |-> IF X.gasConfig.owner \in {Undef, Null}
                                        THEN sender ELSE X.gasConfig.owner,
                            price |-> X.gasConfig.price,
                            budget |-> X.gasConfig.budget],
               inputs |-> [i \in DOMAIN X.inputs |-> X.inputs[i].value],
               commands |-> commands])]

\* a lookup that asks for the first queued identifier only
resolveObjects_First(X) ==
  IF Len(X.b.objectsToResolve) = 0
    THEN assemble(X)
    ELSE IF ~X.b.provider
      THEN Fail(X, NoProvider)
      ELSE [Call(X, "getObjectBatch", <<X.b.objectsToResolve[1].id>>)
              EXCEPT !.b.pc = "awaitObjects"]

\* lines 452-457: the batched object lookup is issued
resolveObjects(X) ==
  IF Len(X.b.objectsToResolve) = 0
    THEN assemble(X)
    ELSE IF ~X.b.provider
      THEN Fail(X, NoProvider)
      ELSE [Call(X, "getObjectBatch",
                 [i \in DOMAIN X.b.objectsToResolve |-> X.b.objectsToResolve[i].id])
              EXCEPT !.b.pc = "awaitObjects"]

RECURSIVE issueFetches(_, _)
issueFetches(X, k) ==
  IF k > Len(X.b.moveModulesToResolve)
    THEN X
    ELSE issueFetches(
           Call(X, "getNormalizedMoveFunction", X.b.moveModulesToResolve[k].target),
           k + 1)

\* lines 379-391: every signature fetch is issued
resolveMoveModules(X) ==
  IF Len(X.b.moveModulesToResolve) = 0
    THEN resolveObjects(X)
    ELSE IF ~X.b.provider
      THEN [Fail(X, NoProvider) EXCEPT
              !.b.tasks = [k \in DOMAIN X.b.moveModulesToResolve |->
                             [status |-> "failed", error |-> NoProvider]]]
      ELSE [issueFetches(X, 1) EXCEPT
              !.b.pc = "awaitMove",
              !.b.tasks = [k \in DOMAIN X.b.moveModulesToResolve |->
                             [status |-> "pending", error |-> NoError]]]

\* lines 304-377: the scan of the commands
scan(X) ==
  LET S == scanCommands(
             [inputs |-> X.inputs, objectsToResolve |-> << >>,
              moveModulesToResolve |-> << >>, error |-> NoError],
             commands, 1)
      Y == [X EXCEPT !.inputs = S.inputs,
                     !.b.objectsToResolve = S.objectsToResolve,
                     !.b.moveModulesToResolve = S.moveModulesToResolve]
  IN IF S.error # NoError THEN Fail(Y, S.error) ELSE resolveMoveModules(Y)

\* a build that fetches the gas price whether or not one is set
fillPrice_Always(X) ==
  IF ~X.b.provider
    THEN Fail(X, NoProvider)
    ELSE [Call(X, "getReferenceGasPrice", Undef) EXCEPT !.b.pc = "awaitPrice"]

\* lines 298-302: the gas price is fetched when it is not set
fillPrice(X) ==
  IF Truthy(X.gasConfig.price)
    THEN scan(X)
    ELSE IF ~X.b.provider
      THEN Fail(X, NoProvider)
      ELSE [Call(X, "getReferenceGasPrice", Undef) EXCEPT !.b.pc = "awaitPrice"]

\* a validation that does not look at the gas budget
validate_NoBudget(X) ==
  IF ~Truthy(X.gasConfig.payment) THEN Fail(X, "Missing gas payment")
  ELSE IF ~Truthy(sender) THEN Fail(X, "Missing transaction sender")
  ELSE X

\* lines 285-296: the required fields
validate(X) ==
  IF ~Truthy(X.gasConfig.budget) THEN Fail(X, "Missing gas budget")
  ELSE IF ~Truthy(X.gasConfig.payment) THEN Fail(X, "Missing gas payment")
  ELSE IF ~Truthy(sender) THEN Fail(X, "Missing transaction sender")
  ELSE X

\* build() up to its first await
buildStart(X) ==
  LET V == validate(X) IN IF V.b.pc = "failed" THEN V ELSE fillPrice(V)

Context(b) == [inputs |-> inputs, gasConfig |-> gasConfig, b |-> b]

Commit(n, X) ==
  /\ inputs' = X.inputs
  /\ gasConfig' = X.gasConfig
  /\ builds' = [k \in 1 .. (IF n > Len(builds) THEN n ELSE Len(builds)) |->
                  IF k = n THEN X.b ELSE builds[k]]
  /\ UNCHANGED <<commands, sender, expiration, results, lastAccess, serialized, restored>>

\* tx.build({ provider })
build(provider) ==
  /\ Len(builds) < MaxBuilds
  /\ Commit(Len(builds) + 1, buildStart(Context(NewBuild(provider))))

\* getReferenceGasPrice() resolves
getReferenceGasPriceReturns(n, price) ==
  /\ builds[n].pc = "awaitPrice"
  /\ Commit(n, scan([Context([builds[n] EXCEPT !.pc = "running"])
                       EXCEPT !.gasConfig.price = StringOf(price)]))

\* an awaited provider call of the build itself rejects
providerCallFails(n) ==
  /\ builds[n].pc \in {"awaitPrice", "awaitObjects"}
  /\ Commit(n, Fail(Context(builds[n]), ProviderError))

\* getNormalizedMoveFunction() resolves for the k-th Move call to resolve: the
\* rest of the async callback runs; when it throws Promise.all rejects, and
\* with it the build unless it has been rejected before
getNormalizedMoveFunctionReturns(n, k) ==
  /\ builds[n].tasks[k].status = "pending"
  /\ LET b == builds[n]
         moveCall == b.moveModulesToResolve[k]
         S == resolveMoveCall(
                [inputs |-> inputs, objectsToResolve |-> b.objectsToResolve,
                 moveModulesToResolve |-> b.moveModulesToResolve, error |-> NoError],
                moveCall, NormalizedParameters(moveCall.target))
         X == [Context(b) EXCEPT
                 !.inputs = S.inputs,
                 !.b.objectsToResolve = S.objectsToResolve,
                 !.b.tasks[k] = [status |-> IF S.error = NoError THEN "done" ELSE "failed",
                                 error |-> S.error]]
     IN Commit(n, IF S.error # NoError /\ b.pc = "awaitMove" THEN Fail(X, S.error) ELSE X)

\* getNormalizedMoveFunction() rejects for the k-th Move call to resolve
getNormalizedMoveFunctionFails(n, k) ==
  /\ builds[n].tasks[k].status = "pending"
  /\ LET X == [Context(builds[n]) EXCEPT
                 !.b.tasks[k] = [status |-> "failed", error |-> ProviderError]]
     IN Commit(n, IF builds[n].pc = "awaitMove" THEN Fail(X, ProviderError) ELSE X)

\* Promise.all resolves: every callback has returned
moveModulesResolved(n) ==
  /\ builds[n].pc = "awaitMove"
  /\ \A k \in DOMAIN builds[n].tasks : builds[n].tasks[k].status = "done"
  /\ Commit(n, resolveObjects(Context([builds[n] EXCEPT !.pc = "running"])))

\* the lists getObjectBatch(ids) can resolve to: one entry per id in the order
\* of ids, any one of them an error entry, or the last entry missing
BatchResults(ids) ==
  LET full == [i \in DOMAIN ids |-> ObjectData(ids[i])]
  IN {full}
     \cup {[full EXCEPT ![k] = NotExists(ids[k])] : k \in DOMAIN ids}
     \cup {SubSeq(full, 1, Len(ids) - 1)}

\* getObjectBatch() resolves
getObjectBatchReturns(n, objects) ==
  /\ builds[n].pc = "awaitObjects"
  /\ LET b == builds[n]
     IN Commit(n, assemble(
          [Context([b EXCEPT !.pc = "running", !.objects = Arr(objects)])
             EXCEPT !.inputs = writeObjects(inputs, b.objectsToResolve, objects, 1)]))

(***************************************************************************)
(* Values the callers of the model pass in.                                *)
(***************************************************************************)
Ref0 == SuiObjectRef("0xgas", 1)
Senders == {Str("S")}
Budgets == {1000}
Prices == {1}
Payments == {Arr(<<Ref0>>)}
Expirations == {Null, [t |-> "Epoch", Epoch |-> 5]}

\* already resolved values
ResolvedPure == Pure("u64", Num(100))
ResolvedObject == ObjectRef(SuiObjectRef("0xc", 1))

\* values given to input() before a snapshot is taken
SnapshotValues ==
  {Undef, Num(0), Num(100), Str("0xa"), Bytes(<<1, 2>>), ResolvedPure, ResolvedObject}

\* commands added before a snapshot is taken
SnapshotCommands ==
  {MoveCall("pkg::pay::split", <<InputArg(0), GasCoin>>),
   Publish(<< >>)}

(***************************************************************************)
(* SpecSnapshot: a builder is filled, then serialized and restored.        *)
(***************************************************************************)
Fill ==
  \/ \E v \in SnapshotValues : input(v)
  \/ \E c \in SnapshotCommands : add(c)
  \/ \E s \in Senders : setSender(s)
  \/ \E e \in Expirations : setExpiration(e)
  \/ \E p \in Prices : setGasPrice(p)
  \/ \E b \in Budgets : setGasBudget(b)
  \/ \E p \in Payments : setGasPayment(p)

NextSnapshot ==
  \/ serialized = NotSerialized /\ Fill
  \/ serialize
  \/ \E version \in VersionTags :
       serialized.t = "string" /\ from(WithVersion(serialized.string, version))
  \/ from(Bytes(<<1, 2>>))

SpecSnapshot == Init /\ [][NextSnapshot]_vars

(***************************************************************************)
(* SpecResult: commands are added and their result references are read    *)
(* and written.                                                            *)
(***************************************************************************)
\* the command added before a result is read (a reference depends on the
\* position of its command only)
ResultCommands == {MoveCall("pkg::pay::split", <<InputArg(0), GasCoin>>)}

NextResult ==
  \/ \E c \in ResultCommands : add(c)
  \/ \E c \in DOMAIN results, p \in Properties : readResult(c, p)
  \/ \E c \in DOMAIN results, p \in Properties, v \in {Num(7)} : writeResult(c, p, v)

SpecResult == Init /\ [][NextResult]_vars

(***************************************************************************)
(* Spec: a builder is filled and then built.  The callers of the model     *)
(* call the mutators while the builder is being filled; while a build is   *)
(* suspended at a provider call they call input() and add(), up to MaxLate *)
(* times; they call build() again once the build before it has returned a  *)
(* payload, and they set the gas price after the sender, the budget and    *)
(* the payment.                                                            *)
(***************************************************************************)
\* values given to input() before or during a build
BuildValues == {Num(100), Str("0xa"), Str("0xb"), ResolvedPure}

\* commands given to add() before or during a build
BuildCommands ==
  {MoveCall("pkg::pay::split", <<InputArg(0), InputArg(1)>>),
   MoveCall("pkg::pay::split", <<InputArg(0), InputArg(1), GasCoin>>),
   MoveCall("pkg::pay::send", <<InputArg(0)>>),
   MoveCall("pkg::pay::join", <<InputArg(0), InputArg(1)>>),
   TransferObjects(<<InputArg(0), GasCoin>>, InputArg(1))}

\* the arguments a command carries
ArgumentsOf(command) ==
  IF command.kind = "MoveCall"
    THEN {command.arguments[a] : a \in DOMAIN command.arguments}
    ELSE UNION {
           IF IsArrayField(command.kind, command.fields[f].key)
             THEN {command.fields[f].value[a] : a \in DOMAIN command.fields[f].value}
             ELSE {command.fields[f].value} : f \in DOMAIN command.fields}

\* a command built from the handles input() has returned so far
UsesKnownInputs(command) ==
  \A arg \in ArgumentsOf(command) : arg.kind = "Input" => arg.index < Len(inputs)

\* the price getReferenceGasPrice() resolves to
ReferenceGasPrices == {5}

Mutate ==
  \/ \E v \in BuildValues : input(v)
  \/ \E c \in BuildCommands : UsesKnownInputs(c) /\ add(c)
  \/ \E s \in Senders : setSender(s)
  \/ \E b \in Budgets : setGasBudget(b)
  \/ \E p \in Payments : setGasPayment(p)
  \/ /\ Truthy(sender) /\ Truthy(gasConfig.budget) /\ Truthy(gasConfig.payment)
     /\ \E p \in Prices : setGasPrice(p)

Suspended(n) == builds[n].pc \in {"awaitPrice", "awaitMove", "awaitObjects"}

Filling == builds = << >>

Late ==
  \E n \in DOMAIN builds :
    /\ Suspended(n)
    /\ Len(inputs) + Len(commands) <
         Len(builds[n].start.inputs) + Len(builds[n].start.commands) + MaxLate

\* what the callers pass to input() and add() while a build is suspended
LateValues == {Str("0xa")}
LateCommands == {MoveCall("pkg::pay::join", <<InputArg(0), InputArg(1)>>)}

MutateLate ==
  \/ \E v \in LateValues : input(v)
  \/ \E c \in LateCommands : UsesKnownInputs(c) /\ add(c)

Next ==
  \/ Filling /\ Mutate
  \/ Late /\ MutateLate
  \/ /\ \A n \in DOMAIN builds : builds[n].pc = "done"
     /\ \E provider \in BOOLEAN : build(provider)
  \/ \E n \in DOMAIN builds, price \in ReferenceGasPrices :
       getReferenceGasPriceReturns(n, price)
  \/ \E n \in DOMAIN builds : providerCallFails(n)
  \/ \E n \in DOMAIN builds : \E k \in DOMAIN builds[n].tasks :
       getNormalizedMoveFunctionReturns(n, k)
  \/ \E n \in DOMAIN builds : \E k \in DOMAIN builds[n].tasks :
       getNormalizedMoveFunctionFails(n, k)
  \/ \E n \in DOMAIN builds : moveModulesResolved(n)
  \/ \E n \in DOMAIN builds :
       /\ builds[n].pc = "awaitObjects"
       /\ \E objects \in BatchResults(builds[n].calls[Len(builds[n].calls)].arg) :
            getObjectBatchReturns(n, objects)

Spec == Init /\ [][Next]_vars

(***************************************************************************)
(* SpecOverlap: as Spec, but the callers do not wait: build() is called     *)
(* again while earlier builds are suspended at a provider call.  The        *)
(* callers set the sender, the budget and the payment first and leave the   *)
(* gas price to the build.                                                  *)
(***************************************************************************)
OverlapValues == {Num(100), Str("0xa")}
OverlapCommands == {MoveCall("pkg::pay::split", <<InputArg(0), InputArg(1)>>)}

FillOverlap ==
  \/ ~Truthy(sender) /\ \E s \in Senders : setSender(s)
  \/ ~Truthy(gasConfig.budget) /\ \E b \in Budgets : setGasBudget(b)
  \/ ~Truthy(gasConfig.payment) /\ \E p \in Payments : setGasPayment(p)
  \/ /\ Truthy(sender) /\ Truthy(gasConfig.budget) /\ Truthy(gasConfig.payment)
     /\ \/ \E v \in OverlapValues : input(v)
        \/ \E c \in OverlapCommands : UsesKnownInputs(c) /\ add(c)

NextOverlap ==
  \/ Filling /\ FillOverlap
  \/ Late /\ MutateLate
  \/ build(TRUE)
  \/ \E n \in DOMAIN builds, price \in ReferenceGasPrices :
       getReferenceGasPriceReturns(n, price)
  \/ \E n \in DOMAIN builds : providerCallFails(n)
  \/ \E n \in DOMAIN builds : \E k \in DOMAIN builds[n].tasks :
       getNormalizedMoveFunctionReturns(n, k)
  \/ \E n \in DOMAIN builds : \E k \in DOMAIN builds[n].tasks :
       getNormalizedMoveFunctionFails(n, k)
  \/ \E n \in DOMAIN builds : moveModulesResolved(n)
  \/ \E n \in DOMAIN builds :
       /\ builds[n].pc = "awaitObjects"
       /\ \E objects \in BatchResults(builds[n].calls[Len(builds[n].calls)].arg) :
            getObjectBatchReturns(n, objects)

SpecOverlap == Init /\ [][NextOverlap]_vars

(***************************************************************************)
(* Claims.                                                                 *)
(***************************************************************************)
AllResolved(list) == \A i \in DOMAIN list : IsBuilderCallArg(list[i].value)

\* C2: for a builder whose inputs are all resolved, Transaction.from(b.serialize())
\* has the same inputs, commands, gas config, sender and expiration as b.
C2_RoundTrip ==
  (restored.t = "tx" /\ AllResolved(restored.source.inputs)) =>
    /\ restored.inputs = restored.source.inputs
    /\ restored.commands = restored.source.commands
    /\ restored.gasConfig = restored.source.gasConfig
    /\ restored.sender = restored.source.sender
    /\ restored.expiration = restored.source.expiration

C1_AppendOnly ==
  [][/\ Len(inputs') >= Len(inputs)
     /\ Len(commands') >= Len(commands)
     /\ \A k \in DOMAIN inputs :
          /\ inputs'[k].index = inputs[k].index
          /\ inputs'[k].kind = inputs[k].kind
          /\ builds' = builds => inputs'[k] = inputs[k]
     /\ \A k \in DOMAIN commands :
          /\ commands'[k] = commands[k]
          /\ results'[k].baseResult = results[k].baseResult
     /\ \A k \in DOMAIN inputs' : inputs'[k].index = k - 1
     /\ \A j, k \in DOMAIN inputs' : inputs'[j].index = inputs'[k].index => j = k
     /\ Len(results') = Len(commands')
     /\ \A k \in DOMAIN results' : results'[k].baseResult = Result(k - 1)]_vars

C1_Witness ==
  /\ Len(inputs) = 2
  /\ Len(commands) = 2
  /\ inputs[1].index = 0
  /\ inputs[2].index = 1
  /\ results[1].baseResult = Result(0)
  /\ results[2].baseResult = Result(1)
  /\ \E n \in DOMAIN builds :
       /\ Len(builds[n].start.inputs) = 2
       /\ Len(builds[n].start.commands) = 1
       /\ builds[n].start.inputs[1].value # inputs[1].value

\* C4: a build() invoked while the gas budget, the gas payment or the sender is
\* absent fails in that very step with the missing-field error of the first
\* absent field, has issued no provider call, and leaves the inputs, the
\* commands, the gas config, the sender and the expiration as they were.
C4_FailFast ==
  [][(/\ Len(builds') = Len(builds) + 1
      /\ \/ ~Truthy(gasConfig.budget)
         \/ ~Truthy(gasConfig.payment)
         \/ ~Truthy(sender)) =>
       LET b == builds'[Len(builds')]
       IN /\ b.pc = "failed"
          /\ b.error = (IF ~Truthy(gasConfig.budget) THEN "Missing gas budget"
                        ELSE IF ~Truthy(gasConfig.payment) THEN "Missing gas payment"
                        ELSE "Missing transaction sender")
          /\ b.calls = << >>
          /\ b.tasks = << >>
          /\ b.payload = Undef
          /\ txVars' = txVars]_vars

C4_Witness ==
  /\ Len(builds) = 1
  /\ builds[1].pc = "failed"
  /\ builds[1].error = "Missing gas payment"
  /\ builds[1].provider
  /\ builds[1].calls = << >>
  /\ ~Truthy(sender)
  /\ Len(inputs) = 2
  /\ ~AllResolved(inputs)
  /\ Len(commands) = 1

\* C5: a build holds a payload only when it has succeeded, and the payload
\* carries the resolved value of every input; a build that settles while some
\* input is unresolved fails and holds no payload.
C5_PayloadOnlyResolved ==
  [][\A n \in DOMAIN builds' :
       LET b == builds'[n]
           settles == /\ b.pc \in {"done", "failed"}
                      /\ n \in DOMAIN builds => builds[n].pc \notin {"done", "failed"}
       IN /\ b.payload # Undef <=> b.pc = "done"
          /\ b.payload # Undef =>
               \A i \in DOMAIN b.payload.V1.inputs :
                 IsBuilderCallArg(b.payload.V1.inputs[i])
          /\ (settles /\ b.pc = "done") =>
               /\ AllResolved(inputs')
               /\ b.payload.V1.inputs = [i \in DOMAIN inputs' |-> inputs'[i].value]
          /\ (settles /\ ~AllResolved(inputs')) =>
               /\ b.pc = "failed"
               /\ b.payload = Undef]_vars

C5_Witness ==
  /\ Len(builds) = 1
  /\ builds[1].pc = "failed"
  /\ builds[1].error = "Expected a BuilderCallArg"
  /\ builds[1].payload = Undef
  /\ commands = <<MoveCall("pkg::pay::send", <<InputArg(0)>>)>>
  /\ Len(inputs) = 2
  /\ inputs[1].value = Pure("address", Str("0xa"))
  /\ inputs[2].value = Num(100)

\* C6: when a build of a builder whose inputs were all resolved has returned a
\* payload, the next build() returns the same payload, also when the first
\* build had to fetch the gas price.
C6_Idempotent ==
  \A n \in DOMAIN builds :
    (/\ n + 1 \in DOMAIN builds
     /\ builds[n].pc = "done"
     /\ AllResolved(builds[n].start.inputs)) =>
      /\ builds[n + 1].pc = "done"
      /\ builds[n + 1].payload = builds[n].payload

C6_Witness ==
  /\ Len(builds) = 2
  /\ builds[1].pc = "done"
  /\ builds[2].pc = "done"
  /\ builds[1].start.gasConfig.price = Undef
  /\ builds[1].payload.V1.gasData.price = StringOf(5)
  /\ Len(builds[1].start.inputs) = 2
  /\ AllResolved(builds[1].start.inputs)
  /\ Len(builds[1].start.commands) = 1

\* the number of arguments each Move function of the chain takes from the
\* caller: its declared parameters without a trailing transaction context
C7_CallerArity(target) ==
  CASE target = "pkg::pay::split" -> 2
    [] target = "pkg::pay::send" -> 1
    [] target = "pkg::pay::join" -> 2

\* C7: once the signature of a Move call that needs resolution is fetched, the
\* call is rejected with "Incorrect number of arguments." exactly when the
\* number of its arguments differs from the number of declared parameters
\* without a trailing transaction context; a build with a rejected call has
\* failed and holds no payload, and reports that error when no other call of
\* it was rejected.
C7_MoveCallArity ==
  \A n \in DOMAIN builds : \A k \in DOMAIN builds[n].tasks :
    LET b == builds[n]
        task == b.tasks[k]
        call == b.moveModulesToResolve[k]
        mismatch == "Incorrect number of arguments."
    IN (task.status # "pending" /\ task.error \notin {NoProvider, ProviderError}) =>
         /\ task.error = mismatch <=>
              Len(call.arguments) # C7_CallerArity(call.target)
         /\ task.error = mismatch =>
              /\ b.pc = "failed"
              /\ b.payload = Undef
              /\ (\A j \in DOMAIN b.tasks : j # k => b.tasks[j].status # "failed") =>
                   b.error = mismatch

C7_Witness ==
  /\ Len(builds) = 1
  /\ commands = <<MoveCall("pkg::pay::split", <<InputArg(0), InputArg(1)>>),
                  MoveCall("pkg::pay::split", <<InputArg(0), InputArg(1), GasCoin>>)>>
  /\ Len(builds[1].tasks) = 2
  /\ builds[1].tasks[1].status = "done"
  /\ builds[1].tasks[2].error = "Incorrect number of arguments."
  /\ builds[1].error = "Incorrect number of arguments."
  /\ inputs[2].value = Pure("u64", Num(100))

\* C8: when the object lookup of a build returns, every entry that is the
\* object of the identifier queued at its position is written, as an object
\* reference of that identifier, into the input that queued the identifier
\* (the last entry written counts for an input that was queued more than once).
C8_PositionalMapping ==
  [][\A n \in DOMAIN builds :
       (builds[n].pc = "awaitObjects" /\ builds'[n].objects.t = "array") =>
         LET queue == builds[n].objectsToResolve
             objects == builds'[n].objects.items
         IN \A i \in DOMAIN queue :
              (/\ i \in DOMAIN objects
               /\ objects[i] = ObjectData(queue[i].id)
               /\ \A j \in DOMAIN objects :
                    j > i => queue[j].input # queue[i].input) =>
                inputs'[queue[i].input + 1].value =
                  IF queue[i].id = "0xb"
                    THEN SharedObjectRef("0xb", 2, TRUE)
                    ELSE ObjectRef(SuiObjectRef(queue[i].id, 3))]_vars

C8_Witness ==
  /\ Len(builds) = 1
  /\ builds[1].pc = "done"
  /\ builds[1].objects.t = "array"
  /\ Len(builds[1].objects.items) = 2
  /\ builds[1].objectsToResolve = <<[id |-> "0xa", input |-> 0], [id |-> "0xb", input |-> 1]>>
  /\ inputs[1].value = ObjectRef(SuiObjectRef("0xa", 3))
  /\ inputs[2].value = SharedObjectRef("0xb", 2, TRUE)

\* C11: Transaction.from() returns a builder only for a snapshot whose version
\* tag is exactly the number 1; for a snapshot with no tag or any other tag it
\* throws and no builder is produced.
C11_VersionCheck ==
  restored.t # "none" =>
    /\ restored.t = "tx" => restored.tag = Num(1)
    /\ restored.tag # Num(1) =>
         /\ restored.t = "error"
         /\ "inputs" \notin DOMAIN restored
         /\ "commands" \notin DOMAIN restored

C11_Witness ==
  /\ restored.t = "error"
  /\ restored.tag = Num(2)
  /\ restored.error = "StructError"
  /\ Len(restored.source.inputs) = 2
  /\ AllResolved(restored.source.inputs)

\* C12: no step of a build writes an input that already holds a resolved
\* value: an input goes from unresolved to resolved at most once and is then
\* left alone.
C12_SingleWrite ==
  [][\A i \in DOMAIN inputs :
       IsBuilderCallArg(inputs[i].value) => inputs'[i].value = inputs[i].value]_vars

\* C13: while a build is suspended at a provider call, no other build()
\* starts on the builder and no mutator changes the builder.
C13_ExclusiveBuild ==
  [][(\E n \in DOMAIN builds : Suspended(n)) =>
       /\ Len(builds') = Len(builds)
       /\ builds' = builds => txVars' = txVars]_vars

\* C14: in every build the provider calls are issued in stage order: the
\* gas-price fetch, if any, is the first call and has returned before any
\* signature fetch is issued; getObjectBatch is issued at most once, as the
\* last call, only when every signature continuation has returned, and it
\* carries the identifiers of the whole queue, which does not grow afterwards.
C14_StageOrdering ==
  \A n \in DOMAIN builds :
    LET b == builds[n]
    IN \A j \in DOMAIN b.calls :
         /\ b.calls[j].fn = "getReferenceGasPrice" => j = 1
         /\ b.calls[j].fn = "getNormalizedMoveFunction" =>
              /\ b.pc # "awaitPrice"
              /\ Truthy(gasConfig.price)
         /\ b.calls[j].fn = "getObjectBatch" =>
              /\ j = Len(b.calls)
              /\ \A k \in DOMAIN b.tasks : b.tasks[k].status = "done"
              /\ b.calls[j].arg =
                   [i \in DOMAIN b.objectsToResolve |-> b.objectsToResolve[i].id]

\* a build fetched the price, then a signature, then looked two objects up in
\* one call and produced a payload
C14_Witness ==
  \E n \in DOMAIN builds :
    /\ builds[n].pc = "done"
    /\ Len(builds[n].calls) = 3
    /\ builds[n].calls[1].fn = "getReferenceGasPrice"
    /\ builds[n].calls[2].fn = "getNormalizedMoveFunction"
    /\ builds[n].calls[3].fn = "getObjectBatch"
    /\ Len(builds[n].calls[3].arg) = 2

\* C15: once a build has failed because a provider call failed, it stays
\* failed with no payload, issues no further provider call, and none of its
\* steps (a signature fetch still in flight included) writes an input.
C15_ExternalFailureTerminal ==
  [][\A n \in DOMAIN builds :
       (builds[n].pc = "failed" /\ builds[n].error = ProviderError) =>
         /\ builds'[n].pc = "failed"
         /\ builds'[n].payload = Undef
         /\ builds'[n].calls = builds[n].calls
         /\ builds'[n] # builds[n] => inputs' = inputs]_vars

\* C16: when the object lookup has returned and some queued identifier has
\* no object at any of its positions of the queue (an error entry or no
\* entry at all), the build has failed and has no payload.
C16_NoPartialSuccess ==
  \A n \in DOMAIN builds :
    LET b == builds[n]
    IN b.objects.t = "array" =>
         ((\E i \in DOMAIN b.objectsToResolve :
             \A j \in DOMAIN b.objectsToResolve :
               b.objectsToResolve[j].id = b.objectsToResolve[i].id =>
                 \/ j > Len(b.objects.items)
                 \/ b.objects.items[j].status # "Exists")
            => b.pc = "failed" /\ b.payload = Undef)

\* C17: a build whose provider calls all succeeded, with every object found,
\* and whose signature continuations have all returned, ends as the build
\* whose fetches complete in the order of the commands ends: it fails exactly
\* when that one fails and leaves the same value in every input.
C17_InterleavingIndependence ==
  \A n \in DOMAIN builds :
    LET b == builds[n]
        S == scanCommands([inputs |-> b.start.inputs, objectsToResolve |-> << >>,
                           moveModulesToResolve |-> << >>, error |-> NoError],
                          b.start.commands, 1)
        R == inOrder(S, S.moveModulesToResolve, 1)
        ids == [i \in DOMAIN R.objectsToResolve |-> R.objectsToResolve[i].id]
        final == IF R.error # NoError THEN R.inputs
                 ELSE writeObjects(R.inputs, R.objectsToResolve,
                                   [i \in DOMAIN ids |-> ObjectData(ids[i])], 1)
        fails == \/ R.error # NoError
                 \/ \E i \in DOMAIN final : ~IsBuilderCallArg(final[i].value)
    IN (/\ b.pc \in {"done", "failed"}
        /\ b.provider
        /\ Len(b.tasks) > 0
        /\ \A k \in DOMAIN b.tasks : b.tasks[k].status # "pending"
        /\ \A k \in DOMAIN b.tasks : b.tasks[k].error # ProviderError
        /\ b.error # ProviderError
        /\ b.objects.t = "array" =>
             b.objects.items =
               [i \in DOMAIN b.objectsToResolve |-> ObjectData(b.objectsToResolve[i].id)]
        /\ commands = b.start.commands
        /\ Len(inputs) = Len(b.start.inputs))
       => /\ (b.pc = "failed") = fails
          /\ inputs = final

\* the targets of the getNormalizedMoveFunction calls a build has issued
C18_Fetched(b) ==
  LET fetches == SelectSeq(b.calls, LAMBDA c : c.fn = "getNormalizedMoveFunction")
  IN [j \in DOMAIN fetches |-> fetches[j].arg]

\* whether a Move call has an Input argument on an input that is unresolved
C18_OnUnresolved(ins, command) ==
  /\ command.kind = "MoveCall"
  /\ \E a \in DOMAIN command.arguments :
       /\ command.arguments[a].kind = "Input"
       /\ ~IsBuilderCallArg(ins[command.arguments[a].index + 1].value)

RECURSIVE C18_Due(_, _, _)
\* the targets of the Move calls with an Input argument on an input that is
\* unresolved in ins
C18_Due(ins, cmds, k) ==
  IF k > Len(cmds) THEN << >>
  ELSE (IF C18_OnUnresolved(ins, cmds[k]) THEN <<cmds[k].target>> ELSE << >>)
         \o C18_Due(ins, cmds, k + 1)

RECURSIVE C18_DueAtScan(_, _, _)
\* the targets of the Move calls with an Input argument on an input that is
\* unresolved when the scan, which has written the pure fields of the
\* commands before it, reaches the call
C18_DueAtScan(S, cmds, k) ==
  IF k > Len(cmds) THEN << >>
  ELSE (IF C18_OnUnresolved(S.inputs, cmds[k]) THEN <<cmds[k].target>> ELSE << >>)
         \o C18_DueAtScan(IF cmds[k].kind = "MoveCall" THEN S
                          ELSE scanFields(S, cmds[k], 1), cmds, k + 1)

\* a build that no input() or add() called while it was suspended disturbs
C18_Undisturbed(b) ==
  /\ commands = b.start.commands
  /\ Len(inputs) = Len(b.start.inputs)

\* a build, given a provider, whose scan has run without an error
C18_Scanned(b) ==
  /\ b.provider
  /\ \/ Len(b.tasks) > 0
     \/ b.pc \in {"awaitObjects", "done"}
     \/ b.objects.t = "array"
     \/ b.error = "Expected a BuilderCallArg"

\* the inputs as the scan of all the commands leaves them
C18_AfterScan(b) ==
  scanCommands([inputs |-> b.start.inputs, objectsToResolve |-> << >>,
                moveModulesToResolve |-> << >>, error |-> NoError],
               b.start.commands, 1).inputs

C19_ScanRan(b) ==
  /\ Truthy(gasConfig.price)
  /\ b.error \notin {"Missing gas budget", "Missing gas payment",
                      "Missing transaction sender"}

\* the arguments of field f of a command, element-wise for an array field
C19_Args(command, f) ==
  IF IsArrayField(command.kind, command.fields[f].key)
    THEN {command.fields[f].value[a] : a \in DOMAIN command.fields[f].value}
    ELSE {command.fields[f].value}

\* the (encoding, input index) pairs of the Input arguments, on inputs that
\* are unresolved when build() is called, of the fields with a known kind of
\* the non-Move commands
C19_Items(b) ==
  UNION {UNION {
    LET e == WellKnownEncoding(b.start.commands[k].kind, b.start.commands[k].fields[f].key)
    IN IF e = None THEN {}
       ELSE {[e |-> e, i |-> arg.index] :
               arg \in {x \in C19_Args(b.start.commands[k], f) :
                          /\ x.kind = "Input"
                          /\ ~IsBuilderCallArg(b.start.inputs[x.index + 1].value)}}
    : f \in DOMAIN b.start.commands[k].fields}
    : k \in {c \in DOMAIN b.start.commands : b.start.commands[c].kind # "MoveCall"}}

\* a raw value the field's kind cannot take
C19_Bad(e, value) ==
  \/ e.kind = "object" /\ value.t # "str"
  \/ e.kind = "pure" /\ ~PureEncodable(e.type, value)

\* C19: once the scan of a build has run, then, for the Input arguments of the
\* fields with a known kind of the non-Move commands whose input was
\* unresolved: when some raw value does not fit its kind the build has failed
\* with an encoding error and has issued no signature fetch and no object
\* lookup; otherwise an input of a pure field holds its pure encoding, and an
\* input of an object field is queued with its id and keeps its raw value
\* until the object lookup has returned.
C19_ScanDispatch ==
  \A n \in DOMAIN builds :
    LET b == builds[n]
        raw(i) == b.start.inputs[i + 1].value
    IN (C18_Undisturbed(b) /\ C19_ScanRan(b)) =>
         IF \E it \in C19_Items(b) : C19_Bad(it.e, raw(it.i))
           THEN /\ b.pc = "failed"
                /\ b.error \in {"Unexpected input format.",
                                "cannot encode the value as pure"}
                /\ \A j \in DOMAIN b.calls : b.calls[j].fn = "getReferenceGasPrice"
           ELSE \A it \in C19_Items(b) :
                  IF it.e.kind = "pure"
                    THEN inputs[it.i + 1].value = Pure(it.e.type, raw(it.i))
                    ELSE /\ \E q \in DOMAIN b.objectsToResolve :
                              b.objectsToResolve[q] = [id |-> raw(it.i).s, input |-> it.i]
                         /\ b.objects.t # "array" => inputs[it.i + 1].value = raw(it.i)

C9_ResultShape ==
  /\ Len(results) = Len(commands)
  /\ \A c \in DOMAIN results :
       /\ results[c].baseResult = Result(c - 1)
       /\ \A k \in Positions :
            ProxyGet(results[c], PositionKey(k)).value = NestedResult(c - 1, k)
  /\ lastAccess.op = "get" =>
       LET i == lastAccess.ref - 1
       IN /\ lastAccess.property = "kind" => lastAccess.value = Str("Result")
          /\ lastAccess.property = "index" => lastAccess.value = Num(i)
          /\ \A k \in Positions :
               lastAccess.property = PositionKey(k) =>
                 lastAccess.value = NestedResult(i, k)

C9_Witness ==
  /\ lastAccess.op = "get"
  /\ lastAccess.ref = 2
  /\ lastAccess.property = PositionKey(1)
  /\ results[2].nestedResults[0] # Undef
  /\ results[2].nestedResults[1] # Undef
  /\ results[1].nestedResults[1] # Undef

\* C10: a write of any property of a result reference throws, and every
\* reference reads after it as it read before.
C10_WriteRejected ==
  [][lastAccess'.op = "set" =>
       /\ lastAccess'.error =
            "The transaction result is a proxy, and does not support setting properties directly"
       /\ \A c \in DOMAIN results : \A p \in Properties :
            ProxyGet(results'[c], p).value = ProxyGet(results[c], p).value]_vars

C10_Witness ==
  /\ lastAccess.op = "set"
  /\ lastAccess.property = "index"
  /\ lastAccess.ref = 1
  /\ results[1].nestedResults[0] # Undef

====
